---- MODULE Spec2Model ----
(***************************************************************************)
(* terminal-pet: the pet lifecycle of src/terminal_pet/pet.py.             *)
(*                                                                         *)
(* Representation.                                                         *)
(*  - A vital (hunger, happiness, energy) is a Python number; decay makes  *)
(*    it fractional (0.6, 0.4, 0.2 points per hour).  The model keeps      *)
(*    vitals in TENTHS of a point, so that with whole-hour clock readings  *)
(*    every value the code computes is an integer: 80 is 800, the hunger   *)
(*    rate is 6 tenths per hour.                                           *)
(*  - A clock reading (time.time()) is a whole number of hours.  All the   *)
(*    readings one call takes (time.time(), datetime.now()) are the same   *)
(*    instant t, the input of the action.                                  *)
(*  - A calendar date (strftime "%Y-%m-%d") is the day number t \div 24.   *)
(*  - Optional[...] fields hold None (the empty tuple) or Some(v) = <<v>>. *)
(*  - The state file is absent, or text: text that is not JSON, a JSON      *)
(*    array, or a JSON object whose members are JSON nulls, numbers and     *)
(*    strings.                                                              *)
(***************************************************************************)
EXTENDS Integers, Sequences, FiniteSets, TLC

\* ------------------------------------------------------------------ bounds
\* longest run of calls explored after construction
MaxOps == 3
\* most commits an earlier run has fed the pet
MaxCommits == 501
\* distance, in tenths of a point, between the vitals a mood is read at
MoodStep == 50
\* the clock reading at which a fresh pet is created, in hours (a midnight)
StartClock == 48
\* a long neglect between two calls, in hours: five and a half days, which
\* leaves a fresh pet starving but alive
LongGap == 132
\* less than a day between two calls, in hours
ShortGap == 12
\* the clock reading at which the GitEventHandler is created, in seconds
StartSeconds == 10
\* the longest time between two file events, in seconds
MaxSeconds == 3

\* ------------------------------------------------------------ representation
None == <<>>
Some(v) == <<v>>

Max(a, b) == IF a >= b THEN a ELSE b
Min(a, b) == IF a <= b THEN a ELSE b

\* a number of points, in tenths
Pt(n) == 10 * n

HoursPerDay == 24
\* datetime.now().strftime("%Y-%m-%d"): the calendar day of reading t
Today(t) == t \div HoursPerDay
\* (datetime.now() - timedelta(days=1)).strftime("%Y-%m-%d")
Yesterday(t) == (t - HoursPerDay) \div HoursPerDay

\* ------------------------------------------------------------ program constants
\* decay per hour, in tenths of a point
HUNGER_DECAY == 6
HAPPINESS_DECAY == 4
ENERGY_DECAY == 2

Activities == {"commit", "push", "pull", "test", "feed", "play", "sleep"}
\* a tag outside the table
UnknownActivities == {"deploy"}

EFFECTS(a) ==
  CASE a = "commit" -> [hunger |-> Pt(20), happiness |-> Pt(10), energy |-> Pt(5)]
    [] a = "push"   -> [hunger |-> Pt(5),  happiness |-> Pt(15), energy |-> Pt(5)]
    [] a = "pull"   -> [hunger |-> Pt(0),  happiness |-> Pt(5),  energy |-> Pt(0)]
    [] a = "test"   -> [hunger |-> Pt(0),  happiness |-> Pt(20), energy |-> Pt(0 - 5)]
    [] a = "feed"   -> [hunger |-> Pt(30), happiness |-> Pt(5),  energy |-> Pt(0)]
    [] a = "play"   -> [hunger |-> Pt(0 - 5), happiness |-> Pt(25), energy |-> Pt(0 - 10)]
    [] a = "sleep"  -> [hunger |-> Pt(0 - 5), happiness |-> Pt(5),  energy |-> Pt(30)]

\* EVOLUTION_THRESHOLDS
BABY_AT == 10
TEEN_AT == 50
ADULT_AT == 200
ELDER_AT == 500

\* ------------------------------------------------------------------ PetState
\* PetState(): the defaults, every timestamp the reading t of construction
PetState(t) ==
  [ name |-> "Pip", pet_type |-> "blob",
    hunger |-> Pt(80), happiness |-> Pt(80), energy |-> Pt(80),
    born_at |-> t, last_fed |-> t, last_played |-> t, last_activity |-> t,
    last_decay_applied |-> t,
    died_at |-> None, resurrect_streak |-> 0,
    total_commits |-> 0, total_deaths |-> 0, total_resurrections |-> 0,
    current_streak |-> 0, longest_streak |-> 0,
    last_commit_date |-> None ]

\* the names of the dataclass fields
Fields == DOMAIN PetState(0)

\* PetState.to_dict: asdict, every field under its name with its value
to_dict(s) == s

\* ------------------------------------------------------------------ the state file
JNull == [json |-> "null"]
JNumber(n) == [json |-> "number", n |-> n]
JString(x) == [json |-> "string", s |-> x]

\* the fields that hold None or a value, and the fields whose value is a str
OptionalFields == {"died_at", "last_commit_date"}
StringFields == {"name", "pet_type", "last_commit_date"}

\* json.dump of the value v of the key k: None is written as null, a number
\* as a number, a str as a string
Encode(k, v) ==
  IF k \in OptionalFields
  THEN IF v = None THEN JNull
       ELSE IF k \in StringFields THEN JString(v[1]) ELSE JNumber(v[1])
  ELSE IF k \in StringFields THEN JString(v) ELSE JNumber(v)

\* json.load of the member j of the key k: null is read as None
Decode(k, j) ==
  LET v == IF j.json = "string" THEN j.s ELSE j.n
  IN IF j.json = "null" THEN None
     ELSE IF k \in OptionalFields THEN Some(v) ELSE v

\* the state file does not exist
NoFile == [content |-> "absent"]
\* the state file holds text that is not JSON
NotJson == [content |-> "not json"]
\* the state file holds a JSON array
JsonArray == [content |-> "json array"]
\* the state file holds the JSON object of the members m
JsonObject(m) == [content |-> "json object", members |-> m]

\* json.dump(d, f) of a dict
json_dump(d) == JsonObject([k \in DOMAIN d |-> Encode(k, d[k])])

\* json.load(f): JSONDecodeError, or the list or dict read
json_load(f) ==
  IF f.content = "not json" THEN [raises |-> "JSONDecodeError"]
  ELSE IF f.content = "json array" THEN [raises |-> "None", type |-> "list"]
  ELSE [raises |-> "None", type |-> "dict",
        dict |-> [k \in DOMAIN f.members |-> Decode(k, f.members[k])]]

\* what Pet.save writes for the record s
Saved(s) == json_dump(to_dict(s))

\* from_dict that leaves last_commit_date at its default
from_dict_forgets_date(data, t) ==
  IF data.type # "dict" THEN [raises |-> "TypeError"]
  ELSE IF ~(DOMAIN data.dict \subseteq Fields) THEN [raises |-> "TypeError"]
  ELSE [raises |-> "None",
        state |-> [k \in Fields |->
                     IF k \in DOMAIN data.dict /\ k # "last_commit_date"
                     THEN data.dict[k]
                     ELSE PetState(t)[k]]]

\* PetState.from_dict at reading t: cls(**data) raises TypeError when data is
\* no mapping or has a key that is no field; a missing key takes its default
from_dict(data, t) ==
  IF data.type # "dict" THEN [raises |-> "TypeError"]
  ELSE IF ~(DOMAIN data.dict \subseteq Fields) THEN [raises |-> "TypeError"]
  ELSE [raises |-> "None",
        state |-> [k \in Fields |->
                     IF k \in DOMAIN data.dict THEN data.dict[k]
                     ELSE PetState(t)[k]]]

\* Pet._load_state at reading t: what it raises, and what it returns;
\* JSONDecodeError (and KeyError) are caught, nothing else is
load_state(f, t) ==
  IF f.content = "absent" THEN [raises |-> "None", value |-> None]
  ELSE LET j == json_load(f)
       IN IF j.raises = "JSONDecodeError" THEN [raises |-> "None", value |-> None]
          ELSE LET r == from_dict(j, t)
               IN IF r.raises # "None" THEN [raises |-> r.raises, value |-> None]
                  ELSE [raises |-> "None", value |-> Some(r.state)]

\* Pet() raised: there is no pet
NoPet == [crashed |-> TRUE]

\* Pet.__init__ at reading t: the loaded record, or the defaults
PetInit(f, t) ==
  LET r == load_state(f, t)
  IN IF r.raises # "None" THEN NoPet
     ELSE IF r.value = None THEN PetState(t)
     ELSE r.value[1]

is_dead(s) == s.died_at # None
is_ghost(s) == is_dead(s) /\ s.resurrect_streak > 0

\* evolution_stage comparing with > where the code has >=
evolution_stage_strict(commits) ==
  IF commits > ELDER_AT THEN "elder"
  ELSE IF commits > ADULT_AT THEN "adult"
  ELSE IF commits > TEEN_AT THEN "teen"
  ELSE IF commits > BABY_AT THEN "baby"
  ELSE "egg"

\* Pet.evolution_stage, of total_commits
evolution_stage(commits) ==
  IF commits >= ELDER_AT THEN "elder"
  ELSE IF commits >= ADULT_AT THEN "adult"
  ELSE IF commits >= TEEN_AT THEN "teen"
  ELSE IF commits >= BABY_AT THEN "baby"
  ELSE "egg"

\* list(EvolutionStage): the stages in declaration order
Stages == <<"egg", "baby", "teen", "adult", "elder">>

\* stages.index(stage)
StageIndex(stage) == CHOOSE i \in 1..Len(Stages) : Stages[i] = stage

EVOLUTION_THRESHOLDS(stage) ==
  CASE stage = "egg"   -> 0
    [] stage = "baby"  -> BABY_AT
    [] stage = "teen"  -> TEEN_AT
    [] stage = "adult" -> ADULT_AT
    [] stage = "elder" -> ELDER_AT

\* commits_to_next_evolution that takes the threshold of the current stage
commits_to_next_evolution_own_stage(commits) ==
  LET stage == evolution_stage(commits)
  IN IF stage = "elder" THEN None
     ELSE Some(EVOLUTION_THRESHOLDS(Stages[StageIndex(stage)]) - commits)

\* Pet.commits_to_next_evolution, of total_commits
commits_to_next_evolution(commits) ==
  LET stage == evolution_stage(commits)
  IN IF stage = "elder" THEN None
     ELSE Some(EVOLUTION_THRESHOLDS(Stages[StageIndex(stage) + 1]) - commits)

\* ------------------------------------------------------------------ decay
\* _die that forgets the death counter
Die_uncounted(s, t) ==
  IF ~is_dead(s)
  THEN [s EXCEPT !.died_at = Some(t), !.current_streak = 0]
  ELSE s

\* Pet._die
Die(s, t) ==
  IF ~is_dead(s)
  THEN [s EXCEPT !.died_at = Some(t),
                 !.total_deaths = @ + 1,
                 !.current_streak = 0]
  ELSE s

\* decay without the floor at 0
Decayed_unclamped(v, hours, rate) == v - hours * rate

\* one vital after `hours` of decay at `rate`
Decayed(v, hours, rate) == Max(0, v - hours * rate)

\* apply_decay without the early return for a dead pet
apply_decay_unguarded(s, t) ==
  LET hours == t - s.last_decay_applied
      d == [s EXCEPT !.hunger = Decayed(@, hours, HUNGER_DECAY),
                     !.happiness = Decayed(@, hours, HAPPINESS_DECAY),
                     !.energy = Decayed(@, hours, ENERGY_DECAY),
                     !.last_decay_applied = t]
  IN IF d.hunger <= 0 THEN Die(d, t) ELSE d

\* apply_decay that measures the time from last_activity
apply_decay_from_activity(s, t) ==
  IF is_dead(s) THEN s
  ELSE LET hours == t - s.last_activity
           d == [s EXCEPT !.hunger = Decayed(@, hours, HUNGER_DECAY),
                          !.happiness = Decayed(@, hours, HAPPINESS_DECAY),
                          !.energy = Decayed(@, hours, ENERGY_DECAY),
                          !.last_decay_applied = t]
       IN IF d.hunger <= 0 THEN Die(d, t) ELSE d

\* apply_decay that forgets to stamp last_decay_applied
apply_decay_no_stamp(s, t) ==
  IF is_dead(s) THEN s
  ELSE LET hours == t - s.last_decay_applied
           d == [s EXCEPT !.hunger = Decayed(@, hours, HUNGER_DECAY),
                          !.happiness = Decayed(@, hours, HAPPINESS_DECAY),
                          !.energy = Decayed(@, hours, ENERGY_DECAY)]
       IN IF d.hunger <= 0 THEN Die(d, t) ELSE d

\* Pet.apply_decay at reading t
apply_decay(s, t) ==
  IF is_dead(s) THEN s
  ELSE LET hours == t - s.last_decay_applied
           d == [s EXCEPT !.hunger = Decayed(@, hours, HUNGER_DECAY),
                          !.happiness = Decayed(@, hours, HAPPINESS_DECAY),
                          !.energy = Decayed(@, hours, ENERGY_DECAY),
                          !.last_decay_applied = t]
       IN IF d.hunger <= 0 THEN Die(d, t) ELSE d

\* ------------------------------------------------------------------ activities
\* mood that looks at energy before hunger
mood_tired_first(s) ==
  IF is_dead(s) THEN (IF is_ghost(s) THEN "ghost" ELSE "dead")
  ELSE LET sum == s.hunger + s.happiness + s.energy
       IN IF sum >= 3 * Pt(90) THEN "ecstatic"
          ELSE IF sum >= 3 * Pt(70) THEN "happy"
          ELSE IF sum >= 3 * Pt(50) THEN "content"
          ELSE IF sum >= 3 * Pt(30) THEN "neutral"
          ELSE IF s.energy < Pt(20) THEN "tired"
          ELSE IF s.hunger < Pt(20) THEN "hungry"
          ELSE IF sum < 3 * Pt(20) THEN "critical"
          ELSE "sad"

\* Pet.mood; avg = sum / 3 is compared as sum against three times the mark
mood(s) ==
  IF is_dead(s) THEN (IF is_ghost(s) THEN "ghost" ELSE "dead")
  ELSE LET sum == s.hunger + s.happiness + s.energy
       IN IF sum >= 3 * Pt(90) THEN "ecstatic"
          ELSE IF sum >= 3 * Pt(70) THEN "happy"
          ELSE IF sum >= 3 * Pt(50) THEN "content"
          ELSE IF sum >= 3 * Pt(30) THEN "neutral"
          ELSE IF s.hunger < Pt(20) THEN "hungry"
          ELSE IF s.energy < Pt(20) THEN "tired"
          ELSE IF sum < 3 * Pt(20) THEN "critical"
          ELSE "sad"

\* _handle_commit that reads the old stage after the increment
handle_commit_stale_stage(s, t) ==
  LET old_stage == evolution_stage(s.total_commits + 1)
      new_stage == evolution_stage(s.total_commits + 1)
      streak == IF s.last_commit_date = Some(Today(t)) THEN s.current_streak
                ELSE IF s.last_commit_date = Some(Yesterday(t)) THEN s.current_streak + 1
                ELSE 1
  IN [ state |-> [s EXCEPT !.total_commits = @ + 1,
                            !.current_streak = streak,
                            !.last_commit_date = Some(Today(t)),
                            !.longest_streak = Max(@, streak)],
       ret |-> IF new_stage # old_stage THEN new_stage ELSE "None" ]

\* _handle_commit that counts a second commit of the same day in the streak
handle_commit_counts_same_day(s, t) ==
  LET old_stage == evolution_stage(s.total_commits)
      new_stage == evolution_stage(s.total_commits + 1)
      streak == IF s.last_commit_date = Some(Today(t))
                   \/ s.last_commit_date = Some(Yesterday(t))
                THEN s.current_streak + 1
                ELSE 1
  IN [ state |-> [s EXCEPT !.total_commits = @ + 1,
                            !.current_streak = streak,
                            !.last_commit_date = Some(Today(t)),
                            !.longest_streak = Max(@, streak)],
       ret |-> IF new_stage # old_stage THEN new_stage ELSE "None" ]

\* Pet._handle_commit: the record after it, and what it returns
handle_commit(s, t) ==
  LET old_stage == evolution_stage(s.total_commits)
      new_stage == evolution_stage(s.total_commits + 1)
      streak == IF s.last_commit_date = Some(Today(t)) THEN s.current_streak
                ELSE IF s.last_commit_date = Some(Yesterday(t)) THEN s.current_streak + 1
                ELSE 1
  IN [ state |-> [s EXCEPT !.total_commits = @ + 1,
                            !.current_streak = streak,
                            !.last_commit_date = Some(Today(t)),
                            !.longest_streak = Max(@, streak)],
       ret |-> IF new_stage # old_stage THEN new_stage ELSE "None" ]

\* _resurrect that starts the commit count again
Resurrect_resets_commits(s) ==
  [s EXCEPT !.died_at = None,
            !.resurrect_streak = 0,
            !.hunger = Pt(50),
            !.happiness = Pt(50),
            !.energy = Pt(50),
            !.total_resurrections = @ + 1,
            !.total_commits = 0,
            !.current_streak = 3]

\* _resurrect that leaves resurrect_streak as it is
Resurrect_keeps_streak(s) ==
  [s EXCEPT !.died_at = None,
            !.hunger = Pt(50),
            !.happiness = Pt(50),
            !.energy = Pt(50),
            !.total_resurrections = @ + 1,
            !.current_streak = 3]

\* _resurrect that forgets to count the resurrection
Resurrect_uncounted(s) ==
  [s EXCEPT !.died_at = None,
            !.resurrect_streak = 0,
            !.hunger = Pt(50),
            !.happiness = Pt(50),
            !.energy = Pt(50),
            !.current_streak = 3]

\* Pet._resurrect
Resurrect(s) ==
  [s EXCEPT !.died_at = None,
            !.resurrect_streak = 0,
            !.hunger = Pt(50),
            !.happiness = Pt(50),
            !.energy = Pt(50),
            !.total_resurrections = @ + 1,
            !.current_streak = 3]

\* _handle_resurrect_commit that never restarts a broken streak
handle_resurrect_commit_no_restart(s, t) ==
  IF s.last_commit_date = Some(Today(t))
  THEN [state |-> s, saved |-> FALSE]
  ELSE LET rs == s.resurrect_streak + 1
           c == [s EXCEPT !.resurrect_streak = rs,
                          !.last_commit_date = Some(Today(t)),
                          !.total_commits = @ + 1]
       IN [state |-> IF rs >= 3 THEN Resurrect(c) ELSE c, saved |-> TRUE]

\* _handle_resurrect_commit without the early return for a second commit of
\* the day
handle_resurrect_commit_counts_same_day(s, t) ==
  LET rs == IF s.last_commit_date = Some(Yesterday(t)) \/ s.resurrect_streak = 0
            THEN s.resurrect_streak + 1
            ELSE 1
      c == [s EXCEPT !.resurrect_streak = rs,
                     !.last_commit_date = Some(Today(t)),
                     !.total_commits = @ + 1]
  IN [state |-> IF rs >= 3 THEN Resurrect(c) ELSE c, saved |-> TRUE]

\* Pet._handle_resurrect_commit: the record after it, and whether it saved
handle_resurrect_commit(s, t) ==
  IF s.last_commit_date = Some(Today(t))
  THEN [state |-> s, saved |-> FALSE]
  ELSE LET rs == IF s.last_commit_date = Some(Yesterday(t)) \/ s.resurrect_streak = 0
                 THEN s.resurrect_streak + 1
                 ELSE 1
           c == [s EXCEPT !.resurrect_streak = rs,
                          !.last_commit_date = Some(Today(t)),
                          !.total_commits = @ + 1]
       IN [state |-> IF rs >= 3 THEN Resurrect(c) ELSE c, saved |-> TRUE]

\* the clamp without its ceiling
Clamp_no_ceiling(v) == Max(0, v)

\* min(100, max(0, v))
Clamp(v) == Min(Pt(100), Max(0, v))

\* on_activity that lets a live pet die when an activity empties its hunger
on_activity_starves(s, a, t) ==
  IF a \notin Activities \/ is_dead(s)
  THEN [state |-> s, ret |-> "None", saved |-> FALSE]
  ELSE LET e == EFFECTS(a)
           v == [s EXCEPT !.hunger = Clamp(@ + e.hunger),
                          !.happiness = Clamp(@ + e.happiness),
                          !.energy = Clamp(@ + e.energy),
                          !.last_activity = t]
       IN [state |-> IF v.hunger <= 0 THEN Die(v, t) ELSE v,
           ret |-> "None", saved |-> TRUE]

\* on_activity without the early return for a dead pet
on_activity_feeds_dead(s, a, t) ==
  IF a \notin Activities THEN [state |-> s, ret |-> "None", saved |-> FALSE]
  ELSE IF is_dead(s) /\ a = "commit"
  THEN [state |-> handle_resurrect_commit(s, t).state, ret |-> "None",
        saved |-> handle_resurrect_commit(s, t).saved]
  ELSE LET e == EFFECTS(a)
           v == [s EXCEPT !.hunger = Clamp(@ + e.hunger),
                          !.happiness = Clamp(@ + e.happiness),
                          !.energy = Clamp(@ + e.energy),
                          !.last_activity = t]
       IN IF a = "commit"
          THEN [state |-> handle_commit(v, t).state, ret |-> handle_commit(v, t).ret,
                saved |-> TRUE]
          ELSE IF a = "feed"
          THEN [state |-> [v EXCEPT !.last_fed = t], ret |-> "None", saved |-> TRUE]
          ELSE IF a = "play"
          THEN [state |-> [v EXCEPT !.last_played = t], ret |-> "None", saved |-> TRUE]
          ELSE [state |-> v, ret |-> "None", saved |-> TRUE]

\* on_activity that stamps last_activity for a tag outside the table
on_activity_stamps_unknown(s, a, t) ==
  IF a \notin Activities
  THEN [state |-> [s EXCEPT !.last_activity = t], ret |-> "None", saved |-> TRUE]
  ELSE IF is_dead(s) /\ a = "commit"
  THEN [state |-> handle_resurrect_commit(s, t).state, ret |-> "None",
        saved |-> handle_resurrect_commit(s, t).saved]
  ELSE IF is_dead(s) THEN [state |-> s, ret |-> "None", saved |-> FALSE]
  ELSE LET e == EFFECTS(a)
           v == [s EXCEPT !.hunger = Clamp(@ + e.hunger),
                          !.happiness = Clamp(@ + e.happiness),
                          !.energy = Clamp(@ + e.energy),
                          !.last_activity = t]
       IN IF a = "commit"
          THEN [state |-> handle_commit(v, t).state, ret |-> handle_commit(v, t).ret,
                saved |-> TRUE]
          ELSE IF a = "feed"
          THEN [state |-> [v EXCEPT !.last_fed = t], ret |-> "None", saved |-> TRUE]
          ELSE IF a = "play"
          THEN [state |-> [v EXCEPT !.last_played = t], ret |-> "None", saved |-> TRUE]
          ELSE [state |-> v, ret |-> "None", saved |-> TRUE]

\* on_activity that feeds a dead pet the commit's effects before counting the
\* commit toward its resurrection
on_activity_feeds_ghost(s, a, t) ==
  IF a \notin Activities THEN [state |-> s, ret |-> "None", saved |-> FALSE]
  ELSE IF is_dead(s) /\ a # "commit"
  THEN [state |-> s, ret |-> "None", saved |-> FALSE]
  ELSE LET e == EFFECTS(a)
           v == [s EXCEPT !.hunger = Clamp(@ + e.hunger),
                          !.happiness = Clamp(@ + e.happiness),
                          !.energy = Clamp(@ + e.energy),
                          !.last_activity = t]
       IN IF is_dead(s)
          THEN [state |-> handle_resurrect_commit(v, t).state, ret |-> "None",
                saved |-> TRUE]
          ELSE IF a = "commit"
          THEN [state |-> handle_commit(v, t).state, ret |-> handle_commit(v, t).ret,
                saved |-> TRUE]
          ELSE IF a = "feed"
          THEN [state |-> [v EXCEPT !.last_fed = t], ret |-> "None", saved |-> TRUE]
          ELSE IF a = "play"
          THEN [state |-> [v EXCEPT !.last_played = t], ret |-> "None", saved |-> TRUE]
          ELSE [state |-> v, ret |-> "None", saved |-> TRUE]

\* Pet.on_activity: the record after it, what it returns, whether it saved
on_activity(s, a, t) ==
  IF a \notin Activities THEN [state |-> s, ret |-> "None", saved |-> FALSE]
  ELSE IF is_dead(s) /\ a = "commit"
  THEN [state |-> handle_resurrect_commit(s, t).state, ret |-> "None",
        saved |-> handle_resurrect_commit(s, t).saved]
  ELSE IF is_dead(s) THEN [state |-> s, ret |-> "None", saved |-> FALSE]
  ELSE LET e == EFFECTS(a)
           v == [s EXCEPT !.hunger = Clamp(@ + e.hunger),
                          !.happiness = Clamp(@ + e.happiness),
                          !.energy = Clamp(@ + e.energy),
                          !.last_activity = t]
       IN IF a = "commit"
          THEN [state |-> handle_commit(v, t).state, ret |-> handle_commit(v, t).ret,
                saved |-> TRUE]
          ELSE IF a = "feed"
          THEN [state |-> [v EXCEPT !.last_fed = t], ret |-> "None", saved |-> TRUE]
          ELSE IF a = "play"
          THEN [state |-> [v EXCEPT !.last_played = t], ret |-> "None", saved |-> TRUE]
          ELSE [state |-> v, ret |-> "None", saved |-> TRUE]

\* start_resurrection that counts as the first day of the resurrection
start_resurrection_makes_ghost(s) ==
  IF is_dead(s) /\ ~is_ghost(s)
  THEN [state |-> [s EXCEPT !.resurrect_streak = 1], saved |-> TRUE]
  ELSE [state |-> s, saved |-> FALSE]

\* Pet.start_resurrection: the record after it, whether it saved
start_resurrection(s) ==
  IF is_dead(s) /\ ~is_ghost(s)
  THEN [state |-> [s EXCEPT !.resurrect_streak = 0], saved |-> TRUE]
  ELSE [state |-> s, saved |-> FALSE]

\* ------------------------------------------------------------------ state machine
VARIABLES
  state,   \* Pet.state, the in-memory record
  file,    \* the content of STATE_FILE
  now,     \* the clock reading of the last call
  pre,     \* the record as the last call found it
  call,    \* the last call: its name, its activity tag, what it returned,
           \* whether it called save()
  run,     \* observer: the commits made on consecutive days, one a day, since
           \* a commit found the pet dead with resurrect_streak = 0
  nops,    \* calls made so far
  threads, \* the threads of run_interactive: who holds Pet._lock, where each
           \* thread is in its call, the locals of that call
  command, \* the last one-shot command (terminal-pet feed, play): a process of
           \* its own, with the record it loaded and the record it ended with
  tracker  \* tracker.py: the newest commit of the watched repository, the
           \* GitEventHandler's debounce stamp, what was delivered to the pet

vars == <<state, file, now, pre, call, run, nops, threads, command, tracker>>

\* the main loop, the watchdog observer, the poller
Threads == {"main", "watcher", "poller"}

\* no thread is in a call and the lock is free
NoThreads ==
  [lock |-> "none",
   pc |-> [th \in Threads |-> "idle"],
   activity |-> [th \in Threads |-> ""],
   today |-> [th \in Threads |-> 0],
   round |-> [th \in Threads |-> <<>>]]

\* no one-shot command has run
NoCommand == [name |-> "none"]

\* no repository is watched
NoTracker == [watching |-> FALSE]

\* the gaps between the clock readings of two successive calls: the clock set
\* back, the same instant, the next day, a long neglect (which also skips days)
Elapsed == {0 - ShortGap, 0, HoursPerDay, LongGap}

Readings == {now + d : d \in Elapsed}

NoRun == [len |-> 0, day |-> 0, resurrections |-> 0]

\* ------------------------------------------------------------------ records a run leaves behind
\* Each is the record an earlier run of the program reaches from a fresh pet,
\* written as the calls of that run; `at` is the reading of its last call.

\* a fresh pet neglected until its hunger runs out
NeglectedRun ==
  [state |-> apply_decay(PetState(StartClock), StartClock + 2 * LongGap),
   at |-> StartClock + 2 * LongGap]

\* the neglected pet after commits on two consecutive days
GhostRun ==
  LET t1 == NeglectedRun.at
      t2 == t1 + HoursPerDay
      c1 == on_activity(NeglectedRun.state, "commit", t1).state
  IN [state |-> on_activity(c1, "commit", t2).state, at |-> t2]

\* a pet that is fed by a commit in the morning, played with, and starves the
\* same day
SameDayRun ==
  LET t1 == StartClock + 5 * HoursPerDay
      t2 == t1 + ShortGap
      d1 == apply_decay(PetState(StartClock), t1)
      c == on_activity(d1, "commit", t1).state
      p1 == on_activity(c, "play", t1).state
      p2 == on_activity(p1, "play", t1).state
      p3 == on_activity(p2, "play", t1).state
      p4 == on_activity(p3, "play", t1).state
      p5 == on_activity(p4, "play", t1).state
  IN [state |-> apply_decay(p5, t2), at |-> t2]

EarlierRuns == {NeglectedRun, GhostRun, SameDayRun}

\* Pet(): no state file (first run), or the file an earlier run saved on exit
Init ==
  /\ \/ /\ file = NoFile
        /\ now = StartClock
     \/ \E r \in EarlierRuns :
          /\ file = Saved(r.state)
          /\ now = r.at
  /\ state = PetInit(file, now)
  /\ pre = state
  /\ call = [op |-> "init", activity |-> "", ret |-> "None", saved |-> FALSE]
  /\ threads = NoThreads
  /\ command = NoCommand
  /\ tracker = NoTracker
  /\ run = NoRun
  /\ nops = 0

\* the observer after on_activity(a) at reading t found record s
Observe(s, a, t) ==
  IF a # "commit" THEN NoRun
  ELSE IF run.len > 0 /\ Today(t) = run.day + 1
  THEN [run EXCEPT !.len = @ + 1, !.day = Today(t)]
  ELSE IF is_dead(s) /\ s.resurrect_streak = 0
  THEN [len |-> 1, day |-> Today(t), resurrections |-> s.total_resurrections]
  ELSE NoRun

\* the main loop's tick, a badge or a status command: pet.apply_decay()
ApplyDecay ==
  /\ nops < MaxOps
  /\ \E t \in Readings :
       /\ state' = apply_decay(state, t)
       /\ now' = t
  /\ pre' = state
  /\ call' = [op |-> "apply_decay", activity |-> "", ret |-> "None",
              saved |-> FALSE]
  /\ run' = NoRun
  /\ nops' = nops + 1
  /\ UNCHANGED <<file, threads, command, tracker>>

\* a key press, a command, the watcher or the poller: pet.on_activity(a)
OnActivity ==
  /\ nops < MaxOps
  /\ \E a \in Activities \cup UnknownActivities, t \in Readings :
       LET r == on_activity(state, a, t)
       IN /\ state' = r.state
          /\ file' = IF r.saved THEN Saved(r.state) ELSE file
          /\ now' = t
          /\ call' = [op |-> "on_activity", activity |-> a, ret |-> r.ret,
                      saved |-> r.saved]
          /\ run' = Observe(state, a, t)
  /\ pre' = state
  /\ nops' = nops + 1
  /\ UNCHANGED <<threads, command, tracker>>

\* the 'r' key or the resurrect command: pet.start_resurrection()
StartResurrection ==
  /\ nops < MaxOps
  /\ LET r == start_resurrection(state)
     IN /\ state' = r.state
        /\ file' = IF r.saved THEN Saved(r.state) ELSE file
        /\ call' = [op |-> "start_resurrection", activity |-> "",
                    ret |-> "None", saved |-> r.saved]
  /\ pre' = state
  /\ run' = NoRun
  /\ nops' = nops + 1
  /\ UNCHANGED <<now, threads, command, tracker>>

Next == ApplyDecay \/ OnActivity \/ StartResurrection

Spec == Init /\ [][Next]_vars

\* ------------------------------------------------------------------ evolution
\* the display reads pet.evolution_stage
ReadEvolutionStage ==
  /\ nops < MaxOps
  /\ call' = [op |-> "evolution_stage", activity |-> "",
              ret |-> evolution_stage(state.total_commits), saved |-> FALSE]
  /\ pre' = state
  /\ run' = NoRun
  /\ nops' = nops + 1
  /\ UNCHANGED <<state, file, now, threads, command, tracker>>

\* the display reads pet.commits_to_next_evolution
ReadCommitsToNext ==
  /\ nops < MaxOps
  /\ call' = [op |-> "commits_to_next_evolution", activity |-> "",
              ret |-> commits_to_next_evolution(state.total_commits),
              saved |-> FALSE]
  /\ pre' = state
  /\ run' = NoRun
  /\ nops' = nops + 1
  /\ UNCHANGED <<state, file, now, threads, command, tracker>>

RECURSIVE Commits(_, _)
\* the pet s after k more commits at StartClock; the run is cut in halves and
\* the first half is evaluated (its count read) before the second begins, so
\* that the evaluation stays shallow
Commits(s, k) ==
  IF k = 0 THEN s
  ELSE IF k = 1 THEN on_activity(s, "commit", StartClock).state
  ELSE LET half == Commits(s, k \div 2)
       IN IF half.total_commits = s.total_commits + (k \div 2)
          THEN Commits(half, k - (k \div 2))
          ELSE half

\* a fresh pet after n commits
CommitsRun(n) == Commits(PetState(StartClock), n)

\* the pet of n commits starved by neglect, then committed to on two
\* consecutive days
GhostCommitsRun(n) ==
  LET t1 == StartClock + 3 * LongGap
      t2 == t1 + HoursPerDay
      d == apply_decay(CommitsRun(n), t1)
      c1 == on_activity(d, "commit", t1).state
  IN [state |-> on_activity(c1, "commit", t2).state, at |-> t2]

\* what a run that fed the pet n commits left: the pet alive, or a ghost
FedRuns(n) == {[state |-> CommitsRun(n), at |-> StartClock], GhostCommitsRun(n)}

\* Pet() on the file of a run that fed the pet up to MaxCommits commits; one
\* more call is explored from each
InitEvolution ==
  /\ \E n \in 0..MaxCommits :
       \E r \in FedRuns(n) :
         /\ file = Saved(r.state)
         /\ now = r.at
  /\ state = PetInit(file, now)
  /\ pre = state
  /\ call = [op |-> "init", activity |-> "", ret |-> "None", saved |-> FALSE]
  /\ threads = NoThreads
  /\ command = NoCommand
  /\ tracker = NoTracker
  /\ run = NoRun
  /\ nops = MaxOps - 1

NextEvolution ==
  \/ ApplyDecay
  \/ OnActivity
  \/ StartResurrection
  \/ ReadEvolutionStage
  \/ ReadCommitsToNext

SpecEvolution == InitEvolution /\ [][NextEvolution]_vars

\* ----------------------------------------------------------------------- mood
\* the display reads pet.mood
ReadMood ==
  /\ nops < MaxOps
  /\ call' = [op |-> "mood", activity |-> "", ret |-> mood(state),
              saved |-> FALSE]
  /\ pre' = state
  /\ run' = NoRun
  /\ nops' = nops + 1
  /\ UNCHANGED <<state, file, now, threads, command, tracker>>

\* the values of one vital a mood is read at: every MoodStep-th tenth of
\* [0, 100], and 100
MoodGrid == {v \in 0..Pt(100) : v % MoodStep = 0} \cup {Pt(100)}

\* a live record of the vitals h, hp, e
MoodRecord(h, hp, e) ==
  [state |-> [PetState(StartClock) EXCEPT !.hunger = h,
                                         !.happiness = hp,
                                         !.energy = e],
   at |-> StartClock]

\* Pet() on a file holding a live record of vitals on the grid, or the dead
\* or ghost record of an earlier run
InitMood ==
  /\ \/ \E h \in MoodGrid, hp \in MoodGrid, e \in MoodGrid :
          /\ file = Saved(MoodRecord(h, hp, e).state)
          /\ now = MoodRecord(h, hp, e).at
     \/ \E r \in EarlierRuns :
          /\ file = Saved(r.state)
          /\ now = r.at
  /\ state = PetInit(file, now)
  /\ pre = state
  /\ call = [op |-> "init", activity |-> "", ret |-> "None", saved |-> FALSE]
  /\ threads = NoThreads
  /\ command = NoCommand
  /\ tracker = NoTracker
  /\ run = NoRun
  /\ nops = MaxOps - 1

NextMood == ReadMood

SpecMood == InitMood /\ [][NextMood]_vars

\* ------------------------------------------------------------------ restarts
\* the saved file f without the member k: what a version without that field
\* wrote
Without(f, k) ==
  JsonObject([x \in DOMAIN f.members \ {k} |-> f.members[x]])

\* the saved file f with a member that no field is named after
WithUnknown(f) ==
  JsonObject([x \in DOMAIN f.members \cup {"color"} |->
                IF x = "color" THEN JString("red") ELSE f.members[x]])

\* a fresh pet left alone for a day
DecayedRun ==
  [state |-> apply_decay(PetState(StartClock), StartClock + HoursPerDay),
   at |-> StartClock + HoursPerDay]

\* the contents the state file is found with, and the reading at which it is
\* found: absent, damaged, written by hand or by another version, or saved by
\* an earlier run
StateFiles ==
  {[file |-> f, at |-> StartClock] :
     f \in {NoFile, NotJson, JsonArray, JsonObject([k \in {} |-> JNull])}}
    \cup {[file |-> Saved(r.state), at |-> r.at] : r \in EarlierRuns}
    \cup {[file |-> Without(Saved(r.state), "resurrect_streak"), at |-> r.at] :
            r \in {DecayedRun}}
    \cup {[file |-> WithUnknown(Saved(r.state)), at |-> r.at] :
            r \in EarlierRuns \cup {DecayedRun}}

\* Pet() on any of these files, the first call of the run
InitRestart ==
  /\ \E f \in StateFiles :
       /\ file = f.file
       /\ now = f.at
  /\ state = PetInit(file, now)
  /\ pre = state
  /\ call = [op |-> "init", activity |-> "",
             ret |-> load_state(file, now).raises, saved |-> FALSE]
  /\ threads = NoThreads
  /\ command = NoCommand
  /\ tracker = NoTracker
  /\ run = NoRun
  /\ nops = 1

\* run_interactive after Pet() and on its way out: pet.save()
Save ==
  /\ nops < MaxOps
  /\ file' = Saved(state)
  /\ pre' = state
  /\ call' = [op |-> "save", activity |-> "", ret |-> "None", saved |-> TRUE]
  /\ run' = NoRun
  /\ nops' = nops + 1
  /\ UNCHANGED <<state, now, threads, command, tracker>>

\* the next command or the next interactive run: Pet() on the file as it is
Restart ==
  /\ nops < MaxOps
  /\ state' = PetInit(file, now)
  /\ pre' = state
  /\ call' = [op |-> "init", activity |-> "",
              ret |-> load_state(file, now).raises, saved |-> FALSE]
  /\ run' = NoRun
  /\ nops' = nops + 1
  /\ UNCHANGED <<file, now, threads, command, tracker>>

NextRestart ==
  \/ /\ state # NoPet
     /\ \/ ApplyDecay
        \/ OnActivity
        \/ StartResurrection
        \/ Save
  \/ Restart

SpecRestart == InitRestart /\ [][NextRestart]_vars

\* ------------------------------------------------------------------ threads
\* run_interactive: the main loop calls apply_decay, on_activity for a key and
\* start_resurrection; the watchdog observer and the poller call
\* on_activity("commit").  A thread takes one step at a time: a test, one
\* assignment outside the lock, or a whole `with self._lock` block; save()
\* takes the lock for its write.  Time passes between two ticks of the main
\* loop; a clock reading is the `now` of the step that takes it.

\* the block of apply_decay under the lock, at reading t
decay_section(s, t) ==
  LET hours == t - s.last_decay_applied
      d == [s EXCEPT !.hunger = Decayed(@, hours, HUNGER_DECAY),
                     !.happiness = Decayed(@, hours, HAPPINESS_DECAY),
                     !.energy = Decayed(@, hours, ENERGY_DECAY),
                     !.last_decay_applied = t]
  IN IF d.hunger <= 0 THEN Die(d, t) ELSE d

\* the block of on_activity under the lock, at reading t
activity_section(s, a, t) ==
  LET e == EFFECTS(a)
      v == [s EXCEPT !.hunger = Clamp(@ + e.hunger),
                     !.happiness = Clamp(@ + e.happiness),
                     !.energy = Clamp(@ + e.energy),
                     !.last_activity = t]
  IN IF a = "commit" THEN handle_commit(v, t).state
     ELSE IF a = "feed" THEN [v EXCEPT !.last_fed = t]
     ELSE IF a = "play" THEN [v EXCEPT !.last_played = t]
     ELSE v

\* the activities a thread reports: 'f' on the main loop, a commit seen by
\* the observer or by the poller
ThreadActivities(th) == IF th = "main" THEN {"feed"} ELSE {"commit"}

\* a fresh pet neglected until it is about to starve
StarvingRun ==
  [state |-> apply_decay(PetState(StartClock), StartClock + LongGap),
   at |-> StartClock + LongGap]

AllIdle == \A th \in Threads : threads.pc[th] = "idle"

\* thread th begins the call `name` with the activity a
Begun(th, name, a, label) ==
  [threads EXCEPT !.pc[th] = label,
                  !.activity[th] = a,
                  !.round = IF AllIdle
                            THEN [NoThreads.round EXCEPT ![th] = <<name>>]
                            ELSE [@ EXCEPT ![th] = Append(@, name)]]

\* thread th moves on to `label`
Goto(th, label) == [threads EXCEPT !.pc[th] = label]

\* run_interactive on the file an earlier run left
InitThreads ==
  /\ \E r \in {StarvingRun, NeglectedRun, GhostRun} :
       /\ file = Saved(r.state)
       /\ now = r.at
  /\ state = PetInit(file, now)
  /\ pre = state
  /\ call = [op |-> "init", activity |-> "", ret |-> "None", saved |-> FALSE]
  /\ threads = NoThreads
  /\ command = NoCommand
  /\ tracker = NoTracker
  /\ run = NoRun
  /\ nops = 0

\* the tick, some time after the last one: pet.apply_decay(); `pre` keeps the
\* record as it was when no thread was in a call
BeginDecay ==
  /\ nops < MaxOps
  /\ threads.pc["main"] = "idle"
  /\ \E t \in {r \in Readings : r >= now} : now' = t
  /\ threads' = Begun("main", "apply_decay", "", "decay_test")
  /\ pre' = IF AllIdle THEN state ELSE pre
  /\ nops' = nops + 1
  /\ UNCHANGED <<state, file, call, run, command, tracker>>

\* a key, the observer's callback, the poller: pet.on_activity(a)
BeginActivity ==
  /\ nops < MaxOps
  /\ \E th \in Threads :
       /\ threads.pc[th] = "idle"
       /\ \E a \in ThreadActivities(th) :
            threads' = Begun(th, a, a, "activity_test")
  /\ pre' = IF AllIdle THEN state ELSE pre
  /\ nops' = nops + 1
  /\ UNCHANGED <<state, file, now, call, run, command, tracker>>

\* the 'r' key: if pet.is_dead: pet.start_resurrection()
BeginStartResurrection ==
  /\ nops < MaxOps
  /\ threads.pc["main"] = "idle"
  /\ is_dead(state)
  /\ threads' = Begun("main", "start_resurrection", "", "start_test")
  /\ pre' = IF AllIdle THEN state ELSE pre
  /\ nops' = nops + 1
  /\ UNCHANGED <<state, file, now, call, run, command, tracker>>

\* apply_decay: if self.is_dead: return
DecayTest ==
  /\ threads.pc["main"] = "decay_test"
  /\ threads' = Goto("main", IF is_dead(state) THEN "idle" ELSE "decay_lock")
  /\ UNCHANGED <<state, file, now, pre, call, run, nops, command, tracker>>

\* with self._lock: a thread waits for the lock and takes it
TakeLock ==
  \E th \in Threads :
    /\ threads.lock = "none"
    /\ \/ /\ threads.pc[th] = "decay_lock"
          /\ threads' = [Goto(th, "decay_body") EXCEPT !.lock = th]
       \/ /\ threads.pc[th] = "activity_lock"
          /\ threads' = [Goto(th, "activity_body") EXCEPT !.lock = th]
    /\ UNCHANGED <<state, file, now, pre, call, run, nops, command, tracker>>

\* apply_decay: the block under the lock
DecayBody ==
  /\ threads.pc["main"] = "decay_body"
  /\ state' = decay_section(state, now)
  /\ threads' = [Goto("main", "idle") EXCEPT !.lock = "none"]
  /\ UNCHANGED <<file, now, pre, call, run, nops, command, tracker>>

\* on_activity: the tests before the lock
ActivityTest ==
  \E th \in Threads :
    /\ threads.pc[th] = "activity_test"
    /\ threads' = Goto(th,
         IF threads.activity[th] \notin Activities THEN "idle"
         ELSE IF is_dead(state) /\ threads.activity[th] = "commit"
         THEN "resurrect_test"
         ELSE IF is_dead(state) THEN "idle"
         ELSE "activity_lock")
    /\ UNCHANGED <<state, file, now, pre, call, run, nops, command, tracker>>

\* on_activity that calls save() inside its `with self._lock` block: the
\* thread goes on to save with the lock still held
ActivityBody_saves_inside ==
  \E th \in Threads :
    /\ threads.pc[th] = "activity_body"
    /\ state' = activity_section(state, threads.activity[th], now)
    /\ threads' = Goto(th, "save")
    /\ UNCHANGED <<file, now, pre, call, run, nops, command, tracker>>

\* on_activity: the block under the lock
ActivityBody ==
  \E th \in Threads :
    /\ threads.pc[th] = "activity_body"
    /\ state' = activity_section(state, threads.activity[th], now)
    /\ threads' = [Goto(th, "save") EXCEPT !.lock = "none"]
    /\ UNCHANGED <<file, now, pre, call, run, nops, command, tracker>>

\* self.save(), the last statement of on_activity, _handle_resurrect_commit
\* and start_resurrection: the write under the lock
ThreadSave ==
  \E th \in Threads :
    /\ threads.pc[th] = "save"
    /\ threads.lock = "none"
    /\ file' = Saved(state)
    /\ threads' = Goto(th, "idle")
    /\ UNCHANGED <<state, now, pre, call, run, nops, command, tracker>>

\* _handle_resurrect_commit: today, yesterday and the tests on them
ResurrectTest ==
  \E th \in Threads :
    /\ threads.pc[th] = "resurrect_test"
    /\ threads' = [Goto(th,
          IF state.last_commit_date = Some(Today(now)) THEN "idle"
          ELSE IF state.last_commit_date = Some(Yesterday(now))
                  \/ state.resurrect_streak = 0
          THEN "resurrect_count"
          ELSE "resurrect_restart") EXCEPT !.today[th] = Today(now)]
    /\ UNCHANGED <<state, file, now, pre, call, run, nops, command, tracker>>

\* self.state.resurrect_streak += 1
ResurrectCount ==
  \E th \in Threads :
    /\ threads.pc[th] = "resurrect_count"
    /\ state' = [state EXCEPT !.resurrect_streak = @ + 1]
    /\ threads' = Goto(th, "resurrect_date")
    /\ UNCHANGED <<file, now, pre, call, run, nops, command, tracker>>

\* self.state.resurrect_streak = 1
ResurrectRestart ==
  \E th \in Threads :
    /\ threads.pc[th] = "resurrect_restart"
    /\ state' = [state EXCEPT !.resurrect_streak = 1]
    /\ threads' = Goto(th, "resurrect_date")
    /\ UNCHANGED <<file, now, pre, call, run, nops, command, tracker>>

\* self.state.last_commit_date = today
ResurrectDate ==
  \E th \in Threads :
    /\ threads.pc[th] = "resurrect_date"
    /\ state' = [state EXCEPT !.last_commit_date = Some(threads.today[th])]
    /\ threads' = Goto(th, "resurrect_total")
    /\ UNCHANGED <<file, now, pre, call, run, nops, command, tracker>>

\* self.state.total_commits += 1
ResurrectTotal ==
  \E th \in Threads :
    /\ threads.pc[th] = "resurrect_total"
    /\ state' = [state EXCEPT !.total_commits = @ + 1]
    /\ threads' = Goto(th, "resurrect_check")
    /\ UNCHANGED <<file, now, pre, call, run, nops, command, tracker>>

\* if self.state.resurrect_streak >= 3
ResurrectCheck ==
  \E th \in Threads :
    /\ threads.pc[th] = "resurrect_check"
    /\ threads' = Goto(th, IF state.resurrect_streak >= 3 THEN "resurrect"
                           ELSE "save")
    /\ UNCHANGED <<state, file, now, pre, call, run, nops, command, tracker>>

\* self._resurrect()
ResurrectBody ==
  \E th \in Threads :
    /\ threads.pc[th] = "resurrect"
    /\ state' = Resurrect(state)
    /\ threads' = Goto(th, "save")
    /\ UNCHANGED <<file, now, pre, call, run, nops, command, tracker>>

\* start_resurrection: if self.is_dead and not self.is_ghost
StartTest ==
  /\ threads.pc["main"] = "start_test"
  /\ threads' = Goto("main", IF is_dead(state) /\ ~is_ghost(state)
                             THEN "start_reset" ELSE "idle")
  /\ UNCHANGED <<state, file, now, pre, call, run, nops, command, tracker>>

\* self.state.resurrect_streak = 0
StartReset ==
  /\ threads.pc["main"] = "start_reset"
  /\ state' = [state EXCEPT !.resurrect_streak = 0]
  /\ threads' = Goto("main", "save")
  /\ UNCHANGED <<file, now, pre, call, run, nops, command, tracker>>

NextThreads ==
  \/ BeginDecay
  \/ BeginActivity
  \/ BeginStartResurrection
  \/ DecayTest
  \/ TakeLock
  \/ DecayBody
  \/ ActivityTest
  \/ ActivityBody
  \/ ThreadSave
  \/ ResurrectTest
  \/ ResurrectCount
  \/ ResurrectRestart
  \/ ResurrectDate
  \/ ResurrectTotal
  \/ ResurrectCheck
  \/ ResurrectBody
  \/ StartTest
  \/ StartReset

SpecThreads == InitThreads /\ [][NextThreads]_vars

\* a step inside a call: every step but the beginning of a call
CallStep ==
  \/ DecayTest
  \/ TakeLock
  \/ DecayBody
  \/ ActivityTest
  \/ ActivityBody
  \/ ThreadSave
  \/ ResurrectTest
  \/ ResurrectCount
  \/ ResurrectRestart
  \/ ResurrectDate
  \/ ResurrectTotal
  \/ ResurrectCheck
  \/ ResurrectBody
  \/ StartTest
  \/ StartReset

\* the step inside its call that thread th takes
ThreadStep(th) == CallStep /\ threads'.pc[th] # threads.pc[th]

\* the scheduler runs every thread that can run: a thread whose next step
\* stays possible takes it
SpecThreadsFair ==
  /\ InitThreads
  /\ [][NextThreads]_vars
  /\ \A th \in Threads : WF_vars(ThreadStep(th))

\* ------------------------------------------------------------------ the way out
\* run_interactive leaves its loop on 'q' (break), on KeyboardInterrupt and on
\* any other exception raised in the main thread, wherever the main thread is;
\* the finally block stops the tracker, saves and prints, and the process
\* ends when main() has returned.  The poller is a daemon thread that nothing
\* stops: it runs until the process ends.

\* the places of the main thread on its way out
ExitPlaces == {"stop_tracker", "final_save", "leaving", "exited"}

\* break, or an exception unwinding the main thread: a `with self._lock`
\* block it is in releases the lock
Quit ==
  /\ threads.pc["main"] \notin ExitPlaces
  /\ threads' = [Goto("main", "stop_tracker") EXCEPT
                   !.lock = IF @ = "main" THEN "none" ELSE @]
  /\ UNCHANGED <<state, file, now, pre, call, run, nops, command, tracker>>

\* tracker.stop(): observer.stop() and observer.join(), which returns when
\* the observer thread has finished the callback it is in
StopTracker ==
  /\ threads.pc["main"] = "stop_tracker"
  /\ threads.pc["watcher"] = "idle"
  /\ threads' = Goto("main", "final_save")
  /\ UNCHANGED <<state, file, now, pre, call, run, nops, command, tracker>>

\* pet.save() of the finally block: the write under the lock
FinalSave ==
  /\ threads.pc["main"] = "final_save"
  /\ threads.lock = "none"
  /\ file' = Saved(state)
  /\ threads' = Goto("main", "leaving")
  /\ UNCHANGED <<state, now, pre, call, run, nops, command, tracker>>

\* console.print, the return of main() and the end of the process
Terminate ==
  /\ threads.pc["main"] = "leaving"
  /\ threads' = Goto("main", "exited")
  /\ UNCHANGED <<state, file, now, pre, call, run, nops, command, tracker>>

\* the threads run until the process has ended; the observer thread begins
\* no callback once tracker.stop() has returned
NextExit ==
  \/ /\ threads.pc["main"] # "exited"
     /\ NextThreads
     /\ threads.pc["main"] \in {"final_save", "leaving"}
          => threads'.pc["watcher"] = "idle"
  \/ Quit
  \/ StopTracker
  \/ FinalSave
  \/ Terminate

SpecExit == InitThreads /\ [][NextExit]_vars

\* ------------------------------------------------------------------ processes
\* An interactive run keeps its record in memory while one-shot commands
\* (terminal-pet feed, terminal-pet play) run as processes of their own on the
\* same state file.

\* cli.feed and cli.play at reading t on the state file f: Pet(), the refusal
\* for a dead pet that is no ghost, pet.on_activity(a), then render_status,
\* which calls pet.apply_decay(); the record the command ends with, the file
\* it leaves, whether it saved
activity_command(f, a, t) ==
  LET pet == PetInit(f, t)
  IN IF pet = NoPet THEN [state |-> NoPet, file |-> f, saved |-> FALSE]
     ELSE IF is_dead(pet) /\ ~is_ghost(pet)
     THEN [state |-> pet, file |-> f, saved |-> FALSE]
     ELSE LET r == on_activity(pet, a, t)
          IN [state |-> apply_decay(apply_decay(r.state, t), t),
              file |-> IF r.saved THEN Saved(r.state) ELSE f,
              saved |-> r.saved]

\* the activities that have a command
CommandActivities == {"feed", "play"}

\* run_interactive up to its loop: Pet() on no file or on the file of an
\* earlier run, then pet.save(); the first call of the run
InitProcesses ==
  /\ \/ /\ now = StartClock
        /\ state = PetInit(NoFile, now)
     \/ \E r \in {DecayedRun, StarvingRun, NeglectedRun, GhostRun} :
          /\ now = r.at
          /\ state = PetInit(Saved(r.state), now)
  /\ file = Saved(state)
  /\ pre = state
  /\ call = [op |-> "init", activity |-> "", ret |-> "None", saved |-> TRUE]
  /\ threads = NoThreads
  /\ command = NoCommand
  /\ tracker = NoTracker
  /\ run = NoRun
  /\ nops = 1

\* terminal-pet feed or terminal-pet play in another terminal; `nth` is the
\* place of the command among the calls
ActivityCommand ==
  /\ nops < MaxOps
  /\ \E a \in CommandActivities, t \in Readings :
       LET c == activity_command(file, a, t)
       IN /\ file' = c.file
          /\ command' = [name |-> a, at |-> t, nth |-> nops + 1,
                         loaded |-> PetInit(file, t), state |-> c.state,
                         saved |-> c.saved]
          /\ now' = t
  /\ nops' = nops + 1
  /\ UNCHANGED <<state, pre, call, run, threads, tracker>>

NextProcesses ==
  \/ ApplyDecay
  \/ OnActivity
  \/ StartResurrection
  \/ Save
  \/ ActivityCommand

SpecProcesses == InitProcesses /\ [][NextProcesses]_vars

\* ------------------------------------------------------------------ the tracker
\* tracker.py: one watched repository.  `head` is the commit time of its
\* newest commit (git log -1 --format=%ct), None when it has no commit;
\* `polled` counts the commits poll_for_commits has delivered to the pet
\* since that commit was made.  The GitEventHandler reads the clock in
\* seconds: `time` is its reading, `last_event_time` its debounce stamp,
\* `last_callback` the reading at which it last called the callback, `event`
\* the last file event it was handed.

\* the handler has been handed no event
NoEvent == [path |-> "none"]

\* GitTracker and GitEventHandler as constructed, on a repository whose
\* newest commit is `head`
Tracker(head) ==
  [watching |-> TRUE, head |-> head, polled |-> 0,
   time |-> StartSeconds, last_event_time |-> 0, last_callback |-> None,
   event |-> NoEvent]

\* GitTracker.check_for_new_commits: is there a commit newer than last_check
check_for_new_commits(head, last_check) ==
  IF head = None THEN FALSE ELSE head[1] > last_check

\* run_interactive on no file or on the file an earlier run left, the
\* repository having no commit or an old one
InitPoller ==
  /\ \/ /\ file = NoFile
        /\ now = StartClock
     \/ \E r \in EarlierRuns :
          /\ file = Saved(r.state)
          /\ now = r.at
  /\ state = PetInit(file, now)
  /\ pre = state
  /\ call = [op |-> "init", activity |-> "", ret |-> "None", saved |-> FALSE]
  /\ threads = NoThreads
  /\ command = NoCommand
  /\ \E head \in {None, Some(0)} : tracker = Tracker(head)
  /\ run = NoRun
  /\ nops = 0

\* the user commits in the watched repository, some time later
GitCommit ==
  /\ nops < MaxOps
  /\ \E t \in {r \in Readings : r >= now} :
       /\ now' = t
       /\ tracker' = [tracker EXCEPT !.head = Some(t), !.polled = 0]
  /\ nops' = nops + 1
  /\ UNCHANGED <<state, file, pre, call, run, threads, command>>

\* one round of the loop of poll_for_commits, some time after the last one
Poll ==
  /\ nops < MaxOps
  /\ \E t \in {r \in Readings : r >= now} :
       LET new == check_for_new_commits(tracker.head, state.last_activity)
           r == IF new THEN on_activity(state, "commit", t)
                ELSE [state |-> state, ret |-> "None", saved |-> FALSE]
       IN /\ state' = r.state
          /\ file' = IF r.saved THEN Saved(r.state) ELSE file
          /\ now' = t
          /\ call' = [op |-> "poll_for_commits",
                      activity |-> IF new THEN "commit" ELSE "",
                      ret |-> r.ret, saved |-> r.saved]
          /\ tracker' = [tracker EXCEPT !.polled = IF new THEN @ + 1 ELSE @]
  /\ pre' = state
  /\ run' = NoRun
  /\ nops' = nops + 1
  /\ UNCHANGED <<threads, command>>

NextPoller ==
  \/ ApplyDecay
  \/ GitCommit
  \/ Poll

SpecPoller == InitPoller /\ [][NextPoller]_vars

\* ------------------------------------------------------------------ the watcher
\* GitEventHandler._debounce_seconds
DEBOUNCE_SECONDS == 2

\* the file events the observer hands to on_modified, all under .git: the
\* files a commit, a fetch and a push write, another file, a directory
FileEvents ==
  {[path |-> p, is_directory |-> FALSE] :
     p \in {"COMMIT_EDITMSG", "FETCH_HEAD", "refs/remotes/origin/main", "index"}}
    \cup {[path |-> "refs/heads", is_directory |-> TRUE]}

\* the activity on_modified reports for the file at `path`, "" for none
git_event(path) ==
  IF path = "COMMIT_EDITMSG" THEN "commit"
  ELSE IF path = "FETCH_HEAD" THEN "pull"
  ELSE IF path = "refs/remotes/origin/main" THEN "push"
  ELSE ""

\* GitEventHandler.on_modified at the reading t, in seconds: the debounce
\* stamp it leaves and the activity it calls the callback with, "" for none
on_modified(tr, ev, t) ==
  IF ev.is_directory THEN [last_event_time |-> tr.last_event_time, callback |-> ""]
  ELSE IF t - tr.last_event_time < DEBOUNCE_SECONDS
  THEN [last_event_time |-> tr.last_event_time, callback |-> ""]
  ELSE [last_event_time |-> t, callback |-> git_event(ev.path)]

\* run_interactive on no file or on the file of a ghost, tracker.start()
InitWatcher ==
  /\ \/ /\ file = NoFile
        /\ now = StartClock
     \/ /\ file = Saved(GhostRun.state)
        /\ now = GhostRun.at
  /\ state = PetInit(file, now)
  /\ pre = state
  /\ call = [op |-> "init", activity |-> "", ret |-> "None", saved |-> FALSE]
  /\ threads = NoThreads
  /\ command = NoCommand
  /\ tracker = Tracker(None)
  /\ run = NoRun
  /\ nops = 0

\* the observer hands a file event to on_modified, up to MaxSeconds seconds
\* after the last one; the callback is on_git_activity, which calls
\* pet.on_activity at the reading `now` of the hour
OnModified ==
  /\ nops < MaxOps
  /\ \E ev \in FileEvents, gap \in 0..MaxSeconds :
       LET t == tracker.time + gap
           m == on_modified(tracker, ev, t)
           r == IF m.callback # "" THEN on_activity(state, m.callback, now)
                ELSE [state |-> state, ret |-> "None", saved |-> FALSE]
       IN /\ tracker' =
               [tracker EXCEPT
                  !.time = t,
                  !.last_event_time = m.last_event_time,
                  !.last_callback = IF m.callback # "" THEN Some(t) ELSE @,
                  !.event = [path |-> ev.path,
                             is_directory |-> ev.is_directory,
                             time |-> t,
                             callback |-> m.callback,
                             since |-> tracker.last_callback]]
          /\ state' = r.state
          /\ file' = IF r.saved THEN Saved(r.state) ELSE file
          /\ call' = [op |-> "on_modified", activity |-> m.callback,
                      ret |-> r.ret, saved |-> r.saved]
  /\ pre' = state
  /\ run' = NoRun
  /\ nops' = nops + 1
  /\ UNCHANGED <<now, threads, command>>

NextWatcher == OnModified

SpecWatcher == InitWatcher /\ [][NextWatcher]_vars

\* ------------------------------------------------------------------ the last call
Vitals(s) == <<s.hunger, s.happiness, s.energy>>

DecayCall == call.op = "apply_decay"
ActivityCall(a) == call.op = "on_activity" /\ call.activity = a

\* the last call was a commit that found the pet dead, on a day that is
\* neither its last commit date nor the day after it
BrokenResurrectCommit ==
  /\ ActivityCall("commit")
  /\ is_dead(pre)
  /\ pre.resurrect_streak >= 1
  /\ pre.last_commit_date # Some(now \div 24)
  /\ pre.last_commit_date # Some((now \div 24) - 1)

\* ------------------------------------------------------------------ claims

\* C1: after any sequence of apply_decay and on_activity calls, with any
\* clock readings, each of hunger, happiness and energy is within [0,100].
C1_VitalsInRange ==
  \A i \in 1..3 : Vitals(state)[i] >= 0 /\ Vitals(state)[i] <= 1000

\* C2: longest_streak >= current_streak in every state reachable from a fresh
\* pet, also right after a resurrection sets current_streak to 3.
C2_LongestCoversCurrent == state.longest_streak >= state.current_streak

\* C3: from a dead pet with resurrect_streak = 0, whatever its
\* last_commit_date, one commit on each of three consecutive calendar days
\* leaves the pet resurrected after the third: died_at unset,
\* resurrect_streak = 0, the three vitals 50, total_resurrections one more.
C3_ThreeDailyCommitsResurrect ==
  run.len = 3 =>
    /\ state.died_at = None
    /\ state.resurrect_streak = 0
    /\ Vitals(state) = <<500, 500, 500>>
    /\ state.total_resurrections = run.resurrections + 1

\* C4: a commit that finds the pet dead with resurrect_streak >= 1, on a day
\* that is neither last_commit_date nor the day after it, sets
\* resurrect_streak to exactly 1 and the pet stays dead.
C4_BrokenStreakRestartsAtOne ==
  BrokenResurrectCommit =>
    /\ state.resurrect_streak = 1
    /\ is_dead(state)

C4_Witness ==
  /\ BrokenResurrectCommit
  /\ pre.resurrect_streak = 2
  /\ state.resurrect_streak = 1
  /\ state.total_commits = pre.total_commits + 1

\* C5: when apply_decay on a live pet leaves hunger <= 0 the pet is dead after
\* that call, with total_deaths one more and current_streak 0; and every call
\* raises total_deaths by 1 if it takes the pet from alive to dead, by 0
\* otherwise.
C5_DeathCountedOnce ==
  /\ (DecayCall /\ ~is_dead(pre) /\ state.hunger <= 0) =>
       /\ is_dead(state)
       /\ state.total_deaths = pre.total_deaths + 1
       /\ state.current_streak = 0
  /\ state.total_deaths =
       pre.total_deaths + (IF ~is_dead(pre) /\ is_dead(state) THEN 1 ELSE 0)

\* a second death, of a resurrected pet whose streak was 3
C5_Witness ==
  /\ DecayCall
  /\ ~is_dead(pre)
  /\ pre.current_streak = 3
  /\ pre.total_deaths = 1
  /\ is_dead(state)
  /\ state.total_deaths = 2

\* C6: apply_decay on a dead pet leaves every field of the record unchanged,
\* whatever the clock reading.
C6_DeadPetDoesNotDecay ==
  (DecayCall /\ is_dead(pre)) => state = pre

C6_Witness ==
  /\ DecayCall
  /\ is_dead(pre)
  /\ now > pre.last_decay_applied
  /\ pre.happiness > 0

\* C7: died_at goes from unset to set only in apply_decay, and only when the
\* hunger that decay computed is <= 0; no activity sets it, not even play or
\* sleep bringing hunger to 0.
C7_OnlyDecayKills ==
  (~is_dead(pre) /\ is_dead(state)) =>
    /\ DecayCall
    /\ Max(0, pre.hunger - (now - pre.last_decay_applied) * 6) <= 0

\* play found a live pet with hunger <= 5 and left it alive with hunger 0
C7_Witness ==
  /\ ActivityCall("play")
  /\ ~is_dead(pre)
  /\ pre.hunger <= 50
  /\ state.hunger = 0
  /\ ~is_dead(state)

\* C8: after any sequence of completed calls, resurrect_streak > 0 implies
\* died_at is set.
C8_StreakOnlyWhileDead == state.resurrect_streak > 0 => is_dead(state)

\* the commit that completes a resurrection
C8_Witness ==
  /\ ActivityCall("commit")
  /\ is_ghost(pre)
  /\ ~is_dead(state)
  /\ state.resurrect_streak = 0

\* C9: for a live pet and a non-negative elapsed time, apply_decay leaves each
\* vital at max(0, before - elapsedHours * rate), the rates being 0.6, 0.4
\* and 0.2 points per hour.
C9_DecayFormula ==
  (DecayCall /\ ~is_dead(pre) /\ now >= pre.last_decay_applied) =>
    LET h == now - pre.last_decay_applied
    IN /\ state.hunger = Max(0, pre.hunger - h * 6)
       /\ state.happiness = Max(0, pre.happiness - h * 4)
       /\ state.energy = Max(0, pre.energy - h * 2)

\* a decay over a positive time that floors hunger at 0 and not happiness
C9_Witness ==
  /\ DecayCall
  /\ ~is_dead(pre)
  /\ now > pre.last_decay_applied
  /\ pre.hunger > 0
  /\ state.hunger = 0
  /\ state.happiness > 0
  /\ state.happiness < pre.happiness

\* C10: apply_decay with a clock reading earlier than last_decay_applied
\* treats the elapsed time as 0: the three vitals are left unchanged.
C10_NegativeElapsedIsZero ==
  (DecayCall /\ ~is_dead(pre) /\ now < pre.last_decay_applied) =>
    Vitals(state) = Vitals(pre)

\* C11: last_decay_applied never decreases, whatever the clock readings, and
\* every apply_decay on a live pet sets it to the clock reading of that call.
C11_DecayStampMonotone ==
  /\ state.last_decay_applied >= pre.last_decay_applied
  /\ (DecayCall /\ ~is_dead(pre)) => state.last_decay_applied = now

\* C12: a second apply_decay with the same clock reading as the apply_decay
\* before it leaves the record as the first one left it (vitals, died_at,
\* total_deaths and all other fields).
C12_DecayIdempotentPerInstant ==
  [][(DecayCall /\ call'.op = "apply_decay" /\ nops' = nops + 1 /\ now' = now)
       => state' = state]_vars

\* the second apply_decay of an instant, on a live pet the first one decayed
C12_Witness ==
  /\ DecayCall
  /\ nops >= 2
  /\ ~is_dead(pre)
  /\ pre.last_decay_applied = now
  /\ pre.last_decay_applied # pre.born_at
  /\ pre.happiness < 800
  /\ state = pre

\* the deltas of the activity table, in tenths: hunger, happiness, energy
C13_Delta(a) ==
  CASE a = "commit" -> <<200, 100, 50>>
    [] a = "push"   -> <<50, 150, 50>>
    [] a = "pull"   -> <<0, 50, 0>>
    [] a = "test"   -> <<0, 200, 0 - 50>>
    [] a = "feed"   -> <<300, 50, 0>>
    [] a = "play"   -> <<0 - 50, 250, 0 - 100>>
    [] a = "sleep"  -> <<0 - 50, 50, 300>>

\* C13: on a live pet every activity of the table sets each vital to
\* min(100, max(0, before + delta)) and stamps last_activity; a commit on a
\* new pet gives hunger 100, total_commits 1, current_streak 1, stage egg.
C13_ActivityEffects ==
  /\ \A a \in {"commit", "push", "pull", "test", "feed", "play", "sleep"} :
       (ActivityCall(a) /\ ~is_dead(pre)) =>
         /\ \A i \in 1..3 :
              Vitals(state)[i] =
                Min(1000, Max(0, Vitals(pre)[i] + C13_Delta(a)[i]))
         /\ state.last_activity = now
  /\ (ActivityCall("commit") /\ pre = PetState(pre.born_at)) =>
       /\ state.hunger = 1000
       /\ state.total_commits = 1
       /\ state.current_streak = 1
       /\ evolution_stage(state.total_commits) = "egg"

\* the first commit of a new pet
C13_Witness ==
  /\ ActivityCall("commit")
  /\ pre = PetState(StartClock)
  /\ Vitals(state) = <<1000, 900, 850>>
  /\ state.total_commits = 1
  /\ state.last_activity = now

\* C14: a commit on a live pet leaves current_streak unchanged on the day of
\* last_commit_date, raises it by 1 on the day after, sets it to 1 after a
\* longer gap or with no earlier commit; it sets last_commit_date to today and
\* raises total_commits by 1.
C14_CommitStreak ==
  (ActivityCall("commit") /\ ~is_dead(pre)) =>
    LET day == now \div 24
    IN /\ state.current_streak =
            IF pre.last_commit_date = <<day>> THEN pre.current_streak
            ELSE IF pre.last_commit_date = <<day - 1>> THEN pre.current_streak + 1
            ELSE 1
       /\ state.last_commit_date = <<day>>
       /\ state.total_commits = pre.total_commits + 1

\* a commit the day after the commit before it, later a second one that day
C14_Witness ==
  /\ ActivityCall("commit")
  /\ ~is_dead(pre)
  /\ pre.last_commit_date = <<now \div 24>>
  /\ pre.current_streak = 2
  /\ state.current_streak = 2
  /\ state.total_commits = 3

\* C20: on_activity on a dead pet with a known activity other than commit
\* changes no field of the record and returns None.
C20_DeadPetIgnoresActivities ==
  \A a \in {"push", "pull", "test", "feed", "play", "sleep"} :
    (ActivityCall(a) /\ is_dead(pre)) =>
      /\ state = pre
      /\ call.ret = "None"

C20_Witness ==
  /\ ActivityCall("feed")
  /\ is_dead(pre)
  /\ pre.hunger = 0
  /\ state = pre

\* the stage a commit count reaches when it arrives at a threshold
C15_StageAt(n) ==
  CASE n = 10 -> "baby"
    [] n = 50 -> "teen"
    [] n = 200 -> "adult"
    [] n = 500 -> "elder"
    [] OTHER -> "None"

\* C15: on a live pet on_activity returns the new stage when the commit
\* brings total_commits to 10, 50, 200 or 500, and None for every other
\* commit and for every other activity.
C15_ReturnsStageOnEvolution ==
  (call.op = "on_activity" /\ ~is_dead(pre)) =>
    call.ret = IF call.activity = "commit"
               THEN C15_StageAt(pre.total_commits + 1)
               ELSE "None"

\* the tenth commit
C15_Witness ==
  /\ ActivityCall("commit")
  /\ ~is_dead(pre)
  /\ pre.total_commits = 9
  /\ state.total_commits = 10
  /\ call.ret = "baby"

C16_Table ==
  {<<0, "egg">>, <<10, "baby">>, <<50, "teen">>, <<200, "adult">>,
   <<500, "elder">>}

\* C16: evolution_stage is the stage of the highest threshold among 0, 10, 50,
\* 200, 500 that does not exceed total_commits.
C16_StageIsHighestThreshold ==
  call.op = "evolution_stage" =>
    \E p \in C16_Table :
      /\ p[1] <= state.total_commits
      /\ \A q \in C16_Table : q[1] <= state.total_commits => q[1] <= p[1]
      /\ call.ret = p[2]

C16_Witness ==
  /\ call.op = "evolution_stage"
  /\ state.total_commits = 200
  /\ call.ret = "adult"

C17_Rank(stage) ==
  CASE stage = "egg" -> 0
    [] stage = "baby" -> 1
    [] stage = "teen" -> 2
    [] stage = "adult" -> 3
    [] stage = "elder" -> 4

\* C17: the stage does not go down when total_commits goes up by one, no call
\* lowers total_commits, and so no call lowers the stage of the pet, the
\* commit completing a resurrection included.
C17_StageNeverRegresses ==
  /\ C17_Rank(evolution_stage(state.total_commits + 1))
       >= C17_Rank(evolution_stage(state.total_commits))
  /\ state.total_commits >= pre.total_commits
  /\ C17_Rank(evolution_stage(state.total_commits))
       >= C17_Rank(evolution_stage(pre.total_commits))

\* the commit that completes a resurrection and brings the pet to a new stage
C17_Witness ==
  /\ ActivityCall("commit")
  /\ is_ghost(pre)
  /\ ~is_dead(state)
  /\ evolution_stage(pre.total_commits) = "egg"
  /\ evolution_stage(state.total_commits) = "baby"

\* C18: commits_to_next_evolution is None exactly at the elder stage
\* (total_commits >= 500); elsewhere it is the next stage's threshold minus
\* total_commits, which is > 0.
C18_CommitsToNext ==
  call.op = "commits_to_next_evolution" =>
    LET n == state.total_commits
        next == CHOOSE th \in {10, 50, 200, 500, 1000000} :
                  th > n /\ \A o \in {10, 50, 200, 500} : o > n => th <= o
    IN /\ (call.ret = <<>>) <=> (n >= 500)
       /\ (call.ret = <<>>) <=> (evolution_stage(n) = "elder")
       /\ n < 500 => (call.ret = <<next - n>> /\ next - n > 0)

C18_Witness ==
  /\ call.op = "commits_to_next_evolution"
  /\ state.total_commits = 49
  /\ call.ret = <<1>>

\* C19: mood is ghost for a dead pet with resurrect_streak > 0 and dead for a
\* dead pet with resurrect_streak = 0; for a live pet, with avg the mean of
\* the three vitals (3 * avg = their sum), it is ecstatic from 90, happy from
\* 70, content from 50, neutral from 30, and below 30 hungry if hunger < 20,
\* else tired if energy < 20, else critical if avg < 20, else sad.
C19_MoodTable ==
  call.op = "mood" =>
    LET s == state
        dead == s.died_at # <<>>
        sum == s.hunger + s.happiness + s.energy
        low == ~dead /\ sum < 900
        m == call.ret
    IN /\ (m = "ghost")    <=> (dead /\ s.resurrect_streak > 0)
       /\ (m = "dead")     <=> (dead /\ s.resurrect_streak = 0)
       /\ (m = "ecstatic") <=> (~dead /\ sum >= 2700)
       /\ (m = "happy")    <=> (~dead /\ sum >= 2100 /\ sum < 2700)
       /\ (m = "content")  <=> (~dead /\ sum >= 1500 /\ sum < 2100)
       /\ (m = "neutral")  <=> (~dead /\ sum >= 900 /\ sum < 1500)
       /\ (m = "hungry")   <=> (low /\ s.hunger < 200)
       /\ (m = "tired")    <=> (low /\ s.hunger >= 200 /\ s.energy < 200)
       /\ (m = "critical") <=> (low /\ s.hunger >= 200 /\ s.energy >= 200
                                    /\ sum < 600)
       /\ (m = "sad")      <=> (low /\ s.hunger >= 200 /\ s.energy >= 200
                                    /\ sum >= 600)

\* a live pet both hungry and tired reads as hungry
C19_Witness ==
  /\ call.op = "mood"
  /\ state.died_at = <<>>
  /\ state.hunger = 150
  /\ state.energy = 150
  /\ state.happiness = 300
  /\ call.ret = "hungry"

\* C21: on_activity with a tag outside the table changes no field of the
\* record, does not save, and returns None, on a live pet and on a dead one.
C21_UnknownActivityIgnored ==
  \A a \in UnknownActivities :
    ActivityCall(a) => /\ state = pre
                       /\ ~call.saved
                       /\ call.ret = "None"

\* an unknown tag reaches a live pet that a known activity would change
C21_Witness ==
  /\ ActivityCall("deploy")
  /\ ~is_dead(pre)
  /\ pre.happiness < 1000
  /\ pre.last_activity # now
  /\ state = pre

\* C22: a commit on a dead pet returns None and does not apply the commit's
\* effects: while the pet stays dead its vitals, last_activity, current_streak
\* and longest_streak are as before, also when total_commits reaches a
\* threshold; when the commit completes the resurrection the vitals are the
\* 50s of _resurrect, not the old ones plus the effects.
C22_DeadCommitNoEffects ==
  (ActivityCall("commit") /\ is_dead(pre)) =>
    /\ call.ret = "None"
    /\ state.last_activity = pre.last_activity
    /\ state.longest_streak = pre.longest_streak
    /\ is_dead(state) => /\ Vitals(state) = Vitals(pre)
                         /\ state.current_streak = pre.current_streak
    /\ ~is_dead(state) => Vitals(state) = <<500, 500, 500>>

\* a dead pet's tenth commit: it stays dead and no stage is returned
C22_Witness ==
  /\ ActivityCall("commit")
  /\ is_dead(pre)
  /\ is_dead(state)
  /\ pre.total_commits = 9
  /\ state.total_commits = 10
  /\ call.ret = "None"

\* C23: a commit on a dead pet whose last_commit_date is the day of the commit
\* changes no field of the record and saves nothing.
C23_DeadSameDayCommitIgnored ==
  (ActivityCall("commit") /\ is_dead(pre)
     /\ pre.last_commit_date = <<now \div 24>>) =>
    /\ state = pre
    /\ ~call.saved

\* a ghost two days into its resurrection gets a further commit the same day
C23_Witness ==
  /\ ActivityCall("commit")
  /\ is_dead(pre)
  /\ pre.resurrect_streak = 2
  /\ pre.last_commit_date = <<now \div 24>>
  /\ state = pre

\* C24: start_resurrection changes no field of the record: a dead pet that is
\* no ghost has resurrect_streak = 0 rewritten and stays dead and no ghost; a
\* live pet and a ghost are left alone.
C24_StartResurrectionNoChange ==
  call.op = "start_resurrection" =>
    /\ state = pre
    /\ call.saved <=> (pre.died_at # <<>> /\ pre.resurrect_streak = 0)

C24_Witness ==
  /\ call.op = "start_resurrection"
  /\ pre.died_at # <<>>
  /\ pre.resurrect_streak = 0
  /\ state.died_at # <<>>
  /\ state.resurrect_streak = 0
  /\ call.saved

\* C25: loading never raises: whatever the state file holds, Pet() returns a
\* pet, the loaded record or the defaults.
C25_LoadNeverRaises ==
  call.op = "init" => /\ call.ret = "None"
                      /\ state # NoPet

\* C26: when the file holds what save wrote for a record, _load_state returns
\* a record equal to it field for field, unset died_at and last_commit_date
\* included, and saving the loaded record writes the same content.
C26_SaveLoadRoundTrip ==
  (call.op = "init" /\ pre # NoPet /\ file = Saved(pre)) =>
    /\ call.ret = "None"
    /\ state # NoPet
    /\ \A k \in Fields : state[k] = pre[k]
    /\ DOMAIN state = Fields
    /\ Saved(state) = file

\* a decayed pet that never died nor was committed to is saved and loaded
C26_Witness ==
  /\ call.op = "init"
  /\ nops = 3
  /\ pre # NoPet
  /\ file = Saved(pre)
  /\ pre.died_at = <<>>
  /\ pre.last_commit_date = <<>>
  /\ pre.hunger < 800
  /\ state = pre

\* C27: after a call of apply_decay, on_activity or start_resurrection that
\* changed the record, the state file holds that record; a death by decay is
\* there for the next process to load.
C27_PersistedAfterMutation ==
  (call.op \in {"apply_decay", "on_activity", "start_resurrection"}
     /\ state # pre) => file = Saved(state)

\* the places of a call at which the next step writes a field of the record
WritingPlaces ==
  {"decay_body", "activity_body", "resurrect_count", "resurrect_restart",
   "resurrect_date", "resurrect_total", "resurrect", "start_reset"}

\* C28: a thread that is about to write a field of the record holds the lock,
\* so no two threads are about to write at the same time.
C28_WritesUnderLock ==
  /\ \A th \in Threads :
       threads.pc[th] \in WritingPlaces => threads.lock = th
  /\ \A th1, th2 \in Threads :
       (threads.pc[th1] \in WritingPlaces /\ threads.pc[th2] \in WritingPlaces)
         => th1 = th2

\* C29: a thread that is inside the locked block of on_activity, about to
\* apply the effects of an activity, finds died_at unset.
C29_NoLiveEffectsOnDeadPet ==
  \A th \in Threads :
    threads.pc[th] = "activity_body" => state.died_at = <<>>

\* C30: when the observer and the poller have each reported one commit to a
\* dead pet and both calls have returned, the record is what the two calls
\* one after the other give, and a pet whose died_at is unset has
\* resurrect_streak = 0.
C30_DeadCommitsSerializable ==
  /\ state.died_at = <<>> => state.resurrect_streak = 0
  /\ (/\ \A th \in Threads : threads.pc[th] = "idle"
      /\ threads.round = [NoThreads.round EXCEPT !["watcher"] = <<"commit">>,
                                                 !["poller"] = <<"commit">>]
      /\ pre.died_at # <<>>)
       => state = on_activity(on_activity(pre, "commit", now).state,
                              "commit", now).state

\* the record the state file holds
FileRecord == load_state(file, now).value[1]

\* C31: when a feed command has fed the pet and saved, and the interactive
\* process then makes a call that saves, the state file holds both: the
\* command's feed (its last_fed stamp and the hunger it gave, unless the call
\* was itself a feed) and the record of the interactive process.  The clock
\* goes forward.
C31_NoLostUpdate ==
  (/\ command.name = "feed"
   /\ command.saved
   /\ command.at >= command.loaded.last_decay_applied
   /\ now >= command.at
   /\ nops = command.nth + 1
   /\ call.saved
   /\ ~ActivityCall("feed")) => FileRecord.last_fed = command.at

\* C32: when the process of an interactive run has ended, on whichever way
\* out, the state file holds the record that was in memory.
C32_FinalSaveFlushes ==
  threads.pc["main"] = "exited" => file = Saved(state)

\* C33: the time a pet spent dead is not charged as decay: the apply_decay
\* that follows the commit completing a resurrection, h hours later, leaves
\* each vital at max(0, 50 - h * rate), and the pet alive when h < 50 / 0.6.
C33_DeadTimeNotCharged ==
  [][(/\ ActivityCall("commit")
      /\ pre.died_at # <<>>
      /\ state.died_at = <<>>
      /\ call'.op = "apply_decay"
      /\ nops' = nops + 1
      /\ now' >= now)
       => LET h == now' - now
          IN /\ state'.hunger = Max(0, 500 - h * 6)
             /\ state'.happiness = Max(0, 500 - h * 4)
             /\ state'.energy = Max(0, 500 - h * 2)
             /\ h * 6 < 500 => state'.died_at = <<>>]_vars

\* the live record s has no hunger left at reading t, once the decay owed since
\* last_decay_applied is applied
C34_Starved(s, t) ==
  /\ s.died_at = <<>>
  /\ t >= s.last_decay_applied
  /\ s.hunger - (t - s.last_decay_applied) * 6 <= 0

\* C34: an activity is applied to the record caught up with decay: on a pet
\* that has starved by the time of the activity, on_activity in the
\* interactive run does not raise hunger, and a feed or play command on the
\* freshly loaded record ends with the pet dead and not fed.
C34_ActivityOnCaughtUpState ==
  /\ (call.op = "on_activity" /\ C34_Starved(pre, now))
       => state.hunger <= pre.hunger
  /\ (command.name \in {"feed", "play"}
        /\ C34_Starved(command.loaded, command.at))
       => /\ command.state.died_at # <<>>
          /\ command.state.hunger <= command.loaded.hunger

\* C35: the poller delivers at most one commit for the newest commit of the
\* repository: once it has delivered, it delivers no other until a newer
\* commit is made, whether the pet is alive or dead.
C35_PollerCountsOnce == tracker.polled <= 1

\* C36: after any sequence of calls made one at a time from a fresh pet,
\* total_deaths - total_resurrections is 1 when the pet is dead and 0 when it
\* is alive, so total_resurrections <= total_deaths.
C36_DeathsMinusResurrections ==
  /\ state.total_deaths - state.total_resurrections =
       IF state.died_at # <<>> THEN 1 ELSE 0
  /\ state.total_resurrections <= state.total_deaths

\* a pet that died, was resurrected and has died again
C36_Witness ==
  /\ state.died_at # <<>>
  /\ state.total_deaths = 2
  /\ state.total_resurrections = 1

\* C37: no call waits for Pet._lock for ever: under fair scheduling, whenever
\* a thread is in a call of apply_decay, on_activity or start_resurrection,
\* the save at its end included, there comes a moment when every call begun
\* has ended and no thread is in a call.
C37_CallsComplete == (~AllIdle) ~> AllIdle

\* the observer's callback is at its save while the main loop holds the lock
\* in apply_decay
C37_Witness ==
  /\ threads.lock = "main"
  /\ threads.pc["main"] = "decay_body"
  /\ threads.pc["watcher"] = "save"

\* C38: decay composes over time: for a live pet and readings t0 <= t1 <= t2
\* (t0 its last_decay_applied), apply_decay at t1 and then at t2 leaves the
\* pet dead exactly when one apply_decay at t2 would, that is when
\* max(0, hunger - (t2 - t0) * 0.6) <= 0, and, when the pet is alive after
\* t1, leaves the three vitals that one apply_decay at t2 would.
C38_DecayComposes ==
  [][(/\ DecayCall
      /\ pre.died_at = <<>>
      /\ now >= pre.last_decay_applied
      /\ call'.op = "apply_decay"
      /\ nops' = nops + 1
      /\ now' >= now)
       => LET h == now' - pre.last_decay_applied
              once == <<Max(0, pre.hunger - h * 6),
                        Max(0, pre.happiness - h * 4),
                        Max(0, pre.energy - h * 2)>>
          IN /\ (state'.died_at # <<>>) <=> (once[1] <= 0)
             /\ state.died_at = <<>> =>
                  <<state'.hunger, state'.happiness, state'.energy>> = once]_vars

\* the second of two ticks of a run, each some time after the one before,
\* the pet alive after both
C38_Witness ==
  /\ DecayCall
  /\ nops = 2
  /\ pre.died_at = <<>>
  /\ pre.total_deaths = 0
  /\ pre.total_commits = 0
  /\ pre.last_decay_applied > pre.born_at
  /\ now > pre.last_decay_applied
  /\ state.died_at = <<>>
  /\ state.hunger < pre.hunger

\* C39: a modification of COMMIT_EDITMSG is reported as a commit whenever no
\* callback was delivered in the 2 seconds before it, whatever other files
\* under .git were modified in that time.
C39_DebounceDropsOnlyAfterCallback ==
  (/\ tracker.event.path = "COMMIT_EDITMSG"
   /\ \/ tracker.event.since = <<>>
      \/ tracker.event.time - tracker.event.since[1] >= 2)
    => tracker.event.callback = "commit"

====
